---- MODULE Spec2Model ----
(***************************************************************************)
(* Voice-based task tracker (src/voice_task_tracker.py): the task store    *)
(* (TaskManager) with its JSON persistence, the command interpreter        *)
(* (VoiceRecognizer.interpret_command) and the command executor            *)
(* (TaskTrackerApp.process_voice_command).                                 *)
(*                                                                         *)
(* Python str values are sequences of one-character strings, so that       *)
(* lower(), "in", split() and int() are computed and not assumed.          *)
(***************************************************************************)
EXTENDS Integers, Sequences, FiniteSets, TLC

VARIABLES
    tasks,      \* TaskManager.tasks: sequence of Task, insertion order
    next_id,    \* TaskManager.next_id
    file,       \* the backing file tasks.json: [exists, doc]
    running,    \* TRUE while a TaskTrackerApp process is alive
    error,      \* exception that escaped the last operation, "None" if none
    op,         \* the operation that ran last
    text,       \* the transcript the last operation heard, if it heard one
    command,    \* the (command, param) the last operation interpreted
    feedback,   \* what the last operation gave status_var.set and speak
    ret,        \* what the last TaskManager call returned
    call        \* the arguments of the last direct TaskManager call

vars == <<tasks, next_id, file, running, error, op, text, command, feedback, ret,
          call>>

-----------------------------------------------------------------------------
(* Bounds of the model *)

\* add_task is not called once next_id has passed MaxId
MaxId == 2
\* number of words in a transcript given to interpret_command alone
MaxWords == 3

-----------------------------------------------------------------------------
(* Python str: character sequences *)

s_add == <<"a","d","d">>
s_add_sp == <<"a","d","d"," ">>
s_create == <<"c","r","e","a","t","e">>
s_create_sp == <<"c","r","e","a","t","e"," ">>
s_delete == <<"d","e","l","e","t","e">>
s_remove == <<"r","e","m","o","v","e">>
s_complete == <<"c","o","m","p","l","e","t","e">>
s_done == <<"d","o","n","e">>
s_mark == <<"m","a","r","k">>
s_mark_done == <<"m","a","r","k"," ","d","o","n","e">>
s_list == <<"l","i","s","t">>
s_show == <<"s","h","o","w">>
s_buy == <<"b","u","y">>
s_milk == <<"m","i","l","k">>
s_bread == <<"b","r","e","a","d">>
s_Milk == <<"M","i","l","k">>
s_Delete == <<"D","e","l","e","t","e">>
s_deleted == <<"d","e","l","e","t","e","d">>
s_three == <<"3">>
s_two == <<"2">>
s_one == <<"1">>
s_minus1 == <<"-","1">>
s_3rd == <<"3","r","d">>
s_empty == <<>>

UpperAlpha == <<"A","B","C","D","E","F","G","H","I","J","K","L","M",
                "N","O","P","Q","R","S","T","U","V","W","X","Y","Z">>
LowerAlpha == <<"a","b","c","d","e","f","g","h","i","j","k","l","m",
                "n","o","p","q","r","s","t","u","v","w","x","y","z">>
Digits == <<"0","1","2","3","4","5","6","7","8","9">>
Whitespace == {" ", "\t", "\n"}

\* str.lower() on one character
lower_char(c) ==
    IF \E i \in 1..Len(UpperAlpha) : UpperAlpha[i] = c
    THEN LowerAlpha[CHOOSE i \in 1..Len(UpperAlpha) : UpperAlpha[i] = c]
    ELSE c

\* str.lower()
lower(s) == [i \in 1..Len(s) |-> lower_char(s[i])]

\* s[i:i+len(sub)] == sub
MatchAt(s, sub, i) ==
    /\ i >= 1
    /\ i + Len(sub) - 1 <= Len(s)
    /\ \A k \in 1..Len(sub) : s[i + k - 1] = sub[k]

\* Python's "sub in s"
contains(s, sub) == \E i \in 1..(Len(s) + 1) : MatchAt(s, sub, i)

\* s.find(sub), 1-based; 0 when sub does not occur
find(s, sub) ==
    IF contains(s, sub)
    THEN CHOOSE i \in 1..(Len(s) + 1) :
            /\ MatchAt(s, sub, i)
            /\ \A j \in 1..(i - 1) : ~MatchAt(s, sub, j)
    ELSE 0

\* s.split(sep, 1): one or two parts
split1(s, sep) ==
    LET i == find(s, sep) IN
    IF i = 0 THEN <<s>>
    ELSE <<SubSeq(s, 1, i - 1), SubSeq(s, i + Len(sep), Len(s))>>

\* s.split(): the maximal runs of non-whitespace characters
RECURSIVE split_from(_, _, _)
split_from(s, i, cur) ==
    IF i > Len(s)
    THEN IF cur = <<>> THEN <<>> ELSE <<cur>>
    ELSE IF s[i] \in Whitespace
         THEN IF cur = <<>> THEN split_from(s, i + 1, <<>>)
              ELSE <<cur>> \o split_from(s, i + 1, <<>>)
         ELSE split_from(s, i + 1, Append(cur, s[i]))

split(s) == split_from(s, 1, <<>>)

\* " ".join(words)
RECURSIVE join(_)
join(words) ==
    IF words = <<>> THEN <<>>
    ELSE IF Len(words) = 1 THEN words[1]
    ELSE words[1] \o <<" ">> \o join(Tail(words))

IsDigit(c) == \E i \in 1..Len(Digits) : Digits[i] = c
DigitValue(c) == (CHOOSE i \in 1..Len(Digits) : Digits[i] = c) - 1

\* int(w) accepts an optional sign followed by digits, single underscores
\* allowed between digits; anything else raises ValueError
int_body_ok(b) ==
    /\ Len(b) >= 1
    /\ IsDigit(b[1])
    /\ IsDigit(b[Len(b)])
    /\ \A i \in 1..Len(b) : IsDigit(b[i]) \/ b[i] = "_"
    /\ \A i \in 1..(Len(b) - 1) : ~(b[i] = "_" /\ b[i + 1] = "_")

int_sign(w) == IF Len(w) >= 1 /\ w[1] \in {"+", "-"} THEN w[1] ELSE ""
int_body(w) == IF int_sign(w) = "" THEN w ELSE Tail(w)
int_parses(w) == int_body_ok(int_body(w))

RECURSIVE digits_value(_, _)
digits_value(b, acc) ==
    IF b = <<>> THEN acc
    ELSE IF b[1] = "_" THEN digits_value(Tail(b), acc)
    ELSE digits_value(Tail(b), 10 * acc + DigitValue(b[1]))

int_value(w) ==
    IF int_sign(w) = "-" THEN 0 - digits_value(int_body(w), 0)
    ELSE digits_value(int_body(w), 0)

-----------------------------------------------------------------------------
(* VoiceRecognizer.interpret_command *)

\* An optional str: listen() and interpret_command take None or a str
NoneText == [isNone |-> TRUE, s |-> <<>>]
SomeText(s) == [isNone |-> FALSE, s |-> s]

\* The (command, param) tuple; param is None, an int or a str
CmdNone(c) == [command |-> c, ptype |-> "None", num |-> 0, str |-> <<>>]
CmdInt(c, n) == [command |-> c, ptype |-> "int", num |-> n, str |-> <<>>]
CmdStr(c, s) == [command |-> c, ptype |-> "str", num |-> 0, str |-> s]

\* variant of the delete loop that lets the rightmost trigger decide
RECURSIVE delete_scan_last(_, _)
delete_scan_last(words, i) ==
    IF i < 1 THEN CmdNone("delete")
    ELSE IF words[i] \in {s_delete, s_remove} /\ i + 1 <= Len(words)
         THEN IF int_parses(words[i + 1])
              THEN CmdInt("delete", int_value(words[i + 1]))
              ELSE CmdStr("delete_by_desc", join(SubSeq(words, i + 1, Len(words))))
         ELSE delete_scan_last(words, i - 1)

delete_scan_rightmost(words, i) == delete_scan_last(words, Len(words))

\* the for loop of the delete branch, from index i (1-based)
RECURSIVE delete_scan(_, _)
delete_scan(words, i) ==
    IF i > Len(words) THEN CmdNone("delete")
    ELSE IF words[i] \in {s_delete, s_remove} /\ i + 1 <= Len(words)
         THEN IF int_parses(words[i + 1])
              THEN CmdInt("delete", int_value(words[i + 1]))
              ELSE IF i + 1 <= Len(words)
                   THEN CmdStr("delete_by_desc", join(SubSeq(words, i + 1, Len(words))))
                   ELSE delete_scan(words, i + 1)
         ELSE delete_scan(words, i + 1)

\* the for loop of the complete branch, from index i (1-based)
RECURSIVE complete_scan(_, _)
complete_scan(words, i) ==
    IF i > Len(words) THEN CmdNone("complete")
    ELSE IF words[i] \in {s_complete, s_done} /\ i + 1 <= Len(words)
         THEN IF int_parses(words[i + 1])
              THEN CmdInt("complete", int_value(words[i + 1]))
              ELSE IF i + 1 <= Len(words)
                   THEN CmdStr("complete_by_desc", join(SubSeq(words, i + 1, Len(words))))
                   ELSE complete_scan(words, i + 1)
         ELSE complete_scan(words, i + 1)

\* the add branch: split on the first "add " or "create "
add_branch(s) ==
    LET parts == IF contains(s, s_add) THEN split1(s, s_add_sp)
                 ELSE split1(s, s_create_sp)
    IN  IF Len(parts) > 1 THEN CmdStr("add", parts[2]) ELSE CmdStr("add", <<>>)

\* variant of interpret_command that tests the list rule before the add rule
interpret_command_list_first(t) ==
    IF t.isNone \/ t.s = <<>> THEN CmdNone("None")
    ELSE LET s == lower(t.s) IN
         IF contains(s, s_list) \/ contains(s, s_show) THEN CmdNone("list")
         ELSE IF contains(s, s_add) \/ contains(s, s_create) THEN add_branch(s)
         ELSE IF contains(s, s_delete) \/ contains(s, s_remove)
              THEN delete_scan(split(s), 1)
         ELSE IF contains(s, s_complete) \/ contains(s, s_mark_done)
              THEN complete_scan(split(s), 1)
         ELSE CmdNone("None")

\* VoiceRecognizer.interpret_command
interpret_command(t) ==
    IF t.isNone \/ t.s = <<>> THEN CmdNone("None")
    ELSE LET s == lower(t.s) IN
         IF contains(s, s_add) \/ contains(s, s_create) THEN add_branch(s)
         ELSE IF contains(s, s_delete) \/ contains(s, s_remove)
              THEN delete_scan(split(s), 1)
         ELSE IF contains(s, s_complete) \/ contains(s, s_mark_done)
              THEN complete_scan(split(s), 1)
         ELSE IF contains(s, s_list) \/ contains(s, s_show) THEN CmdNone("list")
         ELSE CmdNone("None")

-----------------------------------------------------------------------------
(* Task and the JSON document of the backing file *)

\* Task.__init__
Task(task_id, description, completed) ==
    [id |-> task_id, description |-> description, completed |-> completed]

TaskKeys == {"id", "description", "completed"}

\* JSON values an "id" member can hold
JInt(n) == [t |-> "int", n |-> n]
JStr == [t |-> "str", n |-> 0]
JNull == [t |-> "null", n |-> 0]

\* One element of a JSON array: an object with some of the task keys, or
\* a value of another JSON type
JObject(keys, id, description, completed) ==
    [kind |-> "object", keys |-> keys, id |-> id,
     description |-> description, completed |-> completed]
JOther(kind) ==
    [kind |-> kind, keys |-> {}, id |-> JNull,
     description |-> <<>>, completed |-> FALSE]

\* The file's content: text that is no JSON ("invalid"), or a JSON value;
\* size is the number of characters of a string / of keys of an object
JArray(items) == [kind |-> "array", size |-> Len(items), items |-> items]
JTop(kind, size) == [kind |-> kind, size |-> size, items |-> <<>>]

NoFile == [exists |-> FALSE, doc |-> JTop("null", 0)]
FileOf(doc) == [exists |-> TRUE, doc |-> doc]

\* Task.to_dict
to_dict(task) ==
    JObject(TaskKeys, JInt(task.id), task.description, task.completed)

\* Task.from_dict: "Task", or the exception the subscripts raise
from_dict_raises(d) ==
    IF d.kind # "object" THEN "TypeError"
    ELSE IF "id" \notin d.keys THEN "KeyError"
    ELSE IF "description" \notin d.keys THEN "KeyError"
    ELSE IF "completed" \notin d.keys THEN "KeyError"
    ELSE "None"

\* variant of from_dict that does not read "completed"
from_dict_pending(d) == Task(d.id.n, d.description, FALSE)

\* Task.from_dict on an object that has the three keys and an int id
from_dict(d) == Task(d.id.n, d.description, d.completed)

\* json.dump([task.to_dict() for task in self.tasks], f)
json_dump(ts) == JArray([i \in 1..Len(ts) |-> to_dict(ts[i])])

-----------------------------------------------------------------------------
(* TaskManager; st is the record [tasks, next_id, file] *)

Store(ts, n, f) == [tasks |-> ts, next_id |-> n, file |-> f]

Ids(ts) == {ts[i].id : i \in 1..Len(ts)}

Max(S) == CHOOSE x \in S : \A y \in S : y <= x

\* TaskManager.get_task: index of the first task with that id, 0 for None
get_task(ts, task_id) ==
    IF \E i \in 1..Len(ts) : ts[i].id = task_id
    THEN CHOOSE i \in 1..Len(ts) :
            /\ ts[i].id = task_id
            /\ \A j \in 1..(i - 1) : ts[j].id # task_id
    ELSE 0

\* list.remove of the element at index i
RemoveAt(ts, i) == SubSeq(ts, 1, i - 1) \o SubSeq(ts, i + 1, Len(ts))

\* TaskManager.save_tasks
save_tasks(st) == [st EXCEPT !.file = FileOf(json_dump(st.tasks))]

\* TaskManager.add_task
add_task(st, description) ==
    LET task == Task(st.next_id, description, FALSE)
    IN  save_tasks([st EXCEPT !.tasks = Append(st.tasks, task),
                              !.next_id = st.next_id + 1])

\* TaskManager.update_task; description is an optional str, completed is
\* "None", "True" or "False"
\* variant of update_task that assigns completed whether or not it was given
update_task_assigns_completed(st, task_id, description, completed) ==
    LET i == get_task(st.tasks, task_id) IN
    IF i = 0 THEN st
    ELSE LET t0 == st.tasks[i]
             t1 == IF description.isNone THEN t0
                   ELSE [t0 EXCEPT !.description = description.s]
             t2 == [t1 EXCEPT !.completed = (completed = "True")]
         IN  save_tasks([st EXCEPT !.tasks = [st.tasks EXCEPT ![i] = t2]])

update_task(st, task_id, description, completed) ==
    LET i == get_task(st.tasks, task_id) IN
    IF i = 0 THEN st
    ELSE LET t0 == st.tasks[i]
             t1 == IF description.isNone THEN t0
                   ELSE [t0 EXCEPT !.description = description.s]
             t2 == IF completed = "None" THEN t1
                   ELSE [t1 EXCEPT !.completed = (completed = "True")]
         IN  save_tasks([st EXCEPT !.tasks = [st.tasks EXCEPT ![i] = t2]])

\* variant of delete_task that does not call save_tasks
delete_task_no_save(st, task_id) ==
    LET i == get_task(st.tasks, task_id) IN
    IF i = 0 THEN st
    ELSE [st EXCEPT !.tasks = RemoveAt(st.tasks, i)]

\* TaskManager.delete_task
delete_task(st, task_id) ==
    LET i == get_task(st.tasks, task_id) IN
    IF i = 0 THEN st
    ELSE save_tasks([st EXCEPT !.tasks = RemoveAt(st.tasks, i)])

\* The list comprehension of load_tasks over the document's elements: the
\* first exception an element raises, "None" when all convert
RECURSIVE comprehension_raises(_, _)
comprehension_raises(items, i) ==
    IF i > Len(items) THEN "None"
    ELSE IF from_dict_raises(items[i]) # "None" THEN from_dict_raises(items[i])
    ELSE comprehension_raises(items, i + 1)

\* Iterating json.load's value and converting each element
iteration_raises(doc) ==
    IF doc.kind = "invalid" THEN "JSONDecodeError"
    ELSE IF doc.kind \in {"number", "null", "bool"} THEN "TypeError"
    ELSE IF doc.kind \in {"string", "object"}
         THEN IF doc.size > 0 THEN "TypeError" ELSE "None"
    ELSE comprehension_raises(doc.items, 1)

\* max(task.id for task in self.tasks) + 1 raises unless the ids are ints
max_raises(items) ==
    IF \E i \in 1..Len(items) : items[i].id.t # "int" THEN "TypeError" ELSE "None"

\* TaskManager.load_tasks on the store as __init__ left it (lines 62-64).
\* The result carries the exception that leaves load_tasks ("None" if none);
\* an uncaught exception leaves __init__, so no TaskManager exists and
\* tasks / next_id keep the values __init__ gave them.
load_tasks_raises(st) ==
    IF ~st.file.exists THEN "None"
    ELSE LET doc == st.file.doc
             e == iteration_raises(doc)
         IN  IF e \in {"JSONDecodeError", "KeyError"} THEN "None"
             ELSE IF e # "None" THEN e
             ELSE IF doc.kind = "array" /\ doc.items # <<>>
                  THEN max_raises(doc.items)
                  ELSE "None"

\* variant of load_tasks that takes the maximum id itself as next_id
load_tasks_max_as_next(st) ==
    IF ~st.file.exists THEN st
    ELSE LET doc == st.file.doc
             e == iteration_raises(doc)
         IN  IF e # "None" \/ load_tasks_raises(st) # "None"
             THEN [st EXCEPT !.tasks = <<>>, !.next_id = 1]
             ELSE IF doc.kind = "array" /\ doc.items # <<>>
                  THEN LET ts == [i \in 1..Len(doc.items) |-> from_dict(doc.items[i])]
                       IN  [st EXCEPT !.tasks = ts, !.next_id = Max(Ids(ts))]
                  ELSE [st EXCEPT !.tasks = <<>>, !.next_id = 1]

load_tasks(st) ==
    IF ~st.file.exists THEN st
    ELSE LET doc == st.file.doc
             e == iteration_raises(doc)
         IN  IF e # "None" \/ load_tasks_raises(st) # "None"
             THEN [st EXCEPT !.tasks = <<>>, !.next_id = 1]
             ELSE IF doc.kind = "array" /\ doc.items # <<>>
                  THEN LET ts == [i \in 1..Len(doc.items) |-> from_dict(doc.items[i])]
                       IN  [st EXCEPT !.tasks = ts, !.next_id = Max(Ids(ts)) + 1]
                  ELSE [st EXCEPT !.tasks = <<>>, !.next_id = 1]

-----------------------------------------------------------------------------
(* TaskTrackerApp.process_voice_command: the command executor *)

\* What status_var.set and voice_feedback.speak were given: the two string
\* templates and the values formatted into them
Feedback(status, spoken, num, str, listed) ==
    [status |-> status, spoken |-> spoken, num |-> num, str |-> str, listed |-> listed]

NoFeedback == Feedback("Ready", "", 0, <<>>, <<>>)

\* [task for task in get_all_tasks() if param.lower() in task.description.lower()]
\* as the indices of the matching tasks, in list order
matching_tasks(ts, param) ==
    LET Matches(i) == contains(lower(ts[i].description), lower(param))
    IN  SelectSeq([i \in 1..Len(ts) |-> i], Matches)

\* the enumeration the list command speaks
listing(ts) ==
    [i \in 1..Len(ts) |->
        [id |-> ts[i].id, description |-> ts[i].description,
         status |-> IF ts[i].completed THEN "completed" ELSE "pending"]]

Outcome(st, fb) == [st |-> st, feedback |-> fb]

Say(msg) == Feedback(msg, msg, 0, <<>>, <<>>)

\* variant of the add branch that does not test the description
exec_add_unchecked(st, cmd) ==
    Outcome(add_task(st, cmd.str),
            Feedback("Added task: {param}", "Added task: {param}", 0, cmd.str, <<>>))

\* lines 462-471: command == "add"
exec_add(st, cmd) ==
    IF cmd.str # <<>>
    THEN Outcome(add_task(st, cmd.str),
                 Feedback("Added task: {param}", "Added task: {param}", 0, cmd.str, <<>>))
    ELSE Outcome(st, Feedback("Please specify a task to add.",
                              "Please specify a task to add", 0, <<>>, <<>>))

\* variant of the delete branch that does not look the task up first
exec_delete_unchecked(st, cmd) ==
    Outcome(delete_task(st, cmd.num),
            Feedback("Deleted task {param}", "Deleted task {param}", cmd.num, <<>>, <<>>))

\* lines 473-488: command == "delete" and param is not None
exec_delete(st, cmd) ==
    IF cmd.ptype = "int"
    THEN IF get_task(st.tasks, cmd.num) # 0
         THEN Outcome(delete_task(st, cmd.num),
                      Feedback("Deleted task {param}", "Deleted task {param}",
                               cmd.num, <<>>, <<>>))
         ELSE Outcome(st, Feedback("Task {param} not found", "Task {param} not found",
                                   cmd.num, <<>>, <<>>))
    ELSE Outcome(st, Feedback("Please specify a task number to delete.",
                              "Please specify a task number to delete", 0, <<>>, <<>>))

\* variant of the delete_by_desc branch that acts on the first of several matches
exec_delete_by_desc_first_match(st, cmd) ==
    LET ts == st.tasks
        m == matching_tasks(ts, cmd.str)
    IN  IF Len(m) >= 1
        THEN Outcome(delete_task(st, ts[m[1]].id),
                     Feedback("Deleted task: {task.description}",
                              "Deleted task: {task.description}",
                              0, ts[m[1]].description, <<>>))
        ELSE Outcome(st, Say("No matching task found."))

\* lines 490-508: command == "delete_by_desc"
exec_delete_by_desc(st, cmd) ==
    LET ts == st.tasks
        m == matching_tasks(ts, cmd.str)
    IN  IF Len(m) = 1
        THEN Outcome(delete_task(st, ts[m[1]].id),
                     Feedback("Deleted task: {task.description}",
                              "Deleted task: {task.description}",
                              0, ts[m[1]].description, <<>>))
        ELSE IF Len(m) > 1
        THEN Outcome(st, Say("Multiple matching tasks found. Please be more specific."))
        ELSE Outcome(st, Say("No matching task found."))

\* lines 510-525: command == "complete" and param is not None
exec_complete(st, cmd) ==
    IF cmd.ptype = "int"
    THEN IF get_task(st.tasks, cmd.num) # 0
         THEN Outcome(update_task(st, cmd.num, NoneText, "True"),
                      Feedback("Marked task {param} as complete",
                               "Marked task {param} as complete", cmd.num, <<>>, <<>>))
         ELSE Outcome(st, Feedback("Task {param} not found", "Task {param} not found",
                                   cmd.num, <<>>, <<>>))
    ELSE Outcome(st, Feedback("Please specify a task number to complete.",
                              "Please specify a task number to complete", 0, <<>>, <<>>))

\* lines 527-545: command == "complete_by_desc"
exec_complete_by_desc(st, cmd) ==
    LET ts == st.tasks
        m == matching_tasks(ts, cmd.str)
    IN  IF Len(m) = 1
        THEN Outcome(update_task(st, ts[m[1]].id, NoneText, "True"),
                     Feedback("Marked task as complete: {task.description}",
                              "Marked task as complete: {task.description}",
                              0, ts[m[1]].description, <<>>))
        ELSE IF Len(m) > 1
        THEN Outcome(st, Say("Multiple matching tasks found. Please be more specific."))
        ELSE Outcome(st, Say("No matching task found."))

\* lines 547-560: command == "list"
exec_list(st) ==
    IF st.tasks = <<>>
    THEN Outcome(st, Say("Your task list is empty."))
    ELSE Outcome(st, Feedback("Listed all tasks", "Here are your tasks: ",
                              0, <<>>, listing(st.tasks)))

\* lines 562-564: the final else
exec_not_recognized(st, txt) ==
    Outcome(st, Feedback("Command not recognized: {text}", "Command not recognized",
                         0, txt, <<>>))

\* the if / elif chain of process_voice_command after interpret_command
execute(st, txt, cmd) ==
    IF cmd.command = "add" THEN exec_add(st, cmd)
    ELSE IF cmd.command = "delete" /\ cmd.ptype # "None" THEN exec_delete(st, cmd)
    ELSE IF cmd.command = "delete_by_desc" THEN exec_delete_by_desc(st, cmd)
    ELSE IF cmd.command = "complete" /\ cmd.ptype # "None" THEN exec_complete(st, cmd)
    ELSE IF cmd.command = "complete_by_desc" THEN exec_complete_by_desc(st, cmd)
    ELSE IF cmd.command = "list" THEN exec_list(st)
    ELSE exec_not_recognized(st, txt)

-----------------------------------------------------------------------------
(* Inputs *)

Words(ws) == SomeText(join(ws))

\* descriptions the callers of add_task / update_task pass
Descriptions == {join(<<s_buy, s_milk>>), join(<<s_buy, s_bread>>), s_Milk}

\* ids the callers of update_task / delete_task pass
CallIds == 1..(MaxId + 1)

\* what listen() returns to process_voice_command
VoiceInputs ==
    { NoneText,
      Words(<<s_add, s_buy, s_milk>>),
      Words(<<s_create, s_buy, s_bread>>),
      Words(<<s_add>>),
      Words(<<s_delete, s_one>>),
      Words(<<s_remove, s_two>>),
      Words(<<s_delete, s_milk>>),
      Words(<<s_Delete, s_buy>>),
      Words(<<s_delete, s_show>>),
      Words(<<s_delete>>),
      Words(<<s_complete, s_three>>),
      Words(<<s_mark, s_done, s_one>>),
      Words(<<s_complete, s_Milk>>),
      Words(<<s_done, s_buy>>),
      Words(<<s_complete, s_bread>>),
      Words(<<s_complete>>),
      Words(<<s_show, s_list>>),
      Words(<<s_milk>>) }

\* the words transcripts are made of when interpret_command is run alone;
\* the empty word gives leading, trailing and doubled spaces
Vocabulary ==
    { s_add, s_create, s_delete, s_remove, s_complete, s_done, s_mark, s_list,
      s_show, s_three, s_minus1, s_3rd, s_milk, s_Delete, s_deleted, s_empty }

RECURSIVE WordSeqs(_)
WordSeqs(n) ==
    IF n = 0 THEN {<<>>}
    ELSE LET shorter == WordSeqs(n - 1)
         IN  shorter \cup {Append(ws, w) : ws \in {x \in shorter : Len(x) = n - 1},
                                           w \in Vocabulary}

Transcripts == {NoneText} \cup {Words(ws) : ws \in WordSeqs(MaxWords)}

\* contents another program (or an interrupted write) can leave in the file
ForeignDocs ==
    LET d == join(<<s_buy, s_milk>>)
        good == JObject(TaskKeys, JInt(1), d, FALSE)
    IN  { JTop("invalid", 0),
          JTop("number", 0),
          JTop("null", 0),
          JTop("string", 0),
          JTop("string", 1),
          JTop("object", 0),
          JTop("object", 1),
          JArray(<<>>),
          JArray(<<JOther("number")>>),
          JArray(<<JOther("array")>>),
          JArray(<<good, JOther("string")>>),
          JArray(<<JObject({"description", "completed"}, JNull, d, FALSE)>>),
          JArray(<<JObject({"id", "completed"}, JInt(1), <<>>, FALSE)>>),
          JArray(<<good, JObject({"id", "description"}, JInt(2), d, FALSE)>>),
          JArray(<<JObject({"id"}, JInt(1), <<>>, FALSE), JOther("null")>>),
          JArray(<<JObject(TaskKeys, JStr, d, FALSE)>>),
          JArray(<<good, JObject(TaskKeys, JNull, d, TRUE)>>) }

-----------------------------------------------------------------------------
(* The state machine *)

RetNone == [kind |-> "None", id |-> 0, b |-> FALSE]
RetTask(id) == [kind |-> "Task", id |-> id, b |-> FALSE]
RetBool(b) == [kind |-> "bool", id |-> 0, b |-> b]

\* (task_id, description, completed) as a caller passes them; an argument
\* the call does not take or leaves at its default is 0 / None
Call(task_id, description, completed) ==
    [task_id |-> task_id, description |-> description, completed |-> completed]
NoCall == Call(0, NoneText, "None")

store == Store(tasks, next_id, file)

SetStore(st) ==
    /\ tasks' = st.tasks
    /\ next_id' = st.next_id
    /\ file' = st.file

\* an operation that hears no transcript and gives no feedback
Silent ==
    /\ text' = NoneText
    /\ command' = CmdNone("None")
    /\ feedback' = NoFeedback

\* After TaskTrackerApp.__init__ with no backing file
Init ==
    /\ tasks = <<>>
    /\ next_id = 1
    /\ file = NoFile
    /\ running = TRUE
    /\ error = "None"
    /\ op = "__init__"
    /\ text = NoneText
    /\ command = CmdNone("None")
    /\ feedback = NoFeedback
    /\ ret = RetNone
    /\ call = NoCall

\* main(): TaskTrackerApp.__init__ -> TaskManager.__init__ -> load_tasks
Start ==
    /\ ~running
    /\ LET st0 == Store(<<>>, 1, file)
           e == load_tasks_raises(st0)
       IN  /\ SetStore(load_tasks(st0))
           /\ error' = e
           /\ running' = (e = "None")
    /\ op' = "__init__"
    /\ ret' = RetNone
    /\ call' = NoCall
    /\ Silent

\* TaskTrackerApp.on_close
OnClose ==
    /\ running
    /\ SetStore(save_tasks(store))
    /\ running' = FALSE
    /\ error' = "None"
    /\ op' = "on_close"
    /\ ret' = RetNone
    /\ call' = NoCall
    /\ Silent

\* a call of TaskManager.add_task
AddTask(description) ==
    /\ running
    /\ next_id <= MaxId
    /\ SetStore(add_task(store, description))
    /\ ret' = RetTask(next_id)
    /\ call' = Call(0, SomeText(description), "None")
    /\ op' = "add_task"
    /\ Silent
    /\ UNCHANGED <<running, error>>

\* a call of TaskManager.update_task
UpdateTask(task_id, description, completed) ==
    /\ running
    /\ SetStore(update_task(store, task_id, description, completed))
    /\ ret' = IF get_task(tasks, task_id) = 0 THEN RetNone ELSE RetTask(task_id)
    /\ call' = Call(task_id, description, completed)
    /\ op' = "update_task"
    /\ Silent
    /\ UNCHANGED <<running, error>>

\* a call of TaskManager.delete_task
DeleteTask(task_id) ==
    /\ running
    /\ SetStore(delete_task(store, task_id))
    /\ ret' = RetBool(get_task(tasks, task_id) # 0)
    /\ call' = Call(task_id, NoneText, "None")
    /\ op' = "delete_task"
    /\ Silent
    /\ UNCHANGED <<running, error>>

\* TaskTrackerApp.process_voice_command, heard being what listen() returns
ProcessVoiceCommand(heard) ==
    /\ running
    /\ text' = heard
    /\ op' = "process_voice_command"
    /\ ret' = RetNone
    /\ call' = NoCall
    /\ IF heard.isNone \/ heard.s = <<>>
       THEN /\ feedback' = Feedback("Sorry, I didn't catch that.",
                                    "Sorry, I didn't catch that", 0, <<>>, <<>>)
            /\ command' = CmdNone("None")
            /\ UNCHANGED <<tasks, next_id, file>>
       ELSE \E cmd \in {interpret_command(heard)} :
                /\ (cmd.command = "add" /\ cmd.str # <<>>) => next_id <= MaxId
                /\ \E out \in {execute(store, heard.s, cmd)} :
                      /\ command' = cmd
                      /\ feedback' = out.feedback
                      /\ SetStore(out.st)
    /\ UNCHANGED <<running, error>>

Next ==
    \/ Start
    \/ OnClose
    \/ \E d \in Descriptions : AddTask(d)
    \/ \E i \in CallIds, d \in {NoneText} \cup {SomeText(x) : x \in Descriptions},
          c \in {"None", "True", "False"} : UpdateTask(i, d, c)
    \/ \E i \in CallIds : DeleteTask(i)
    \/ \E t \in VoiceInputs : ProcessVoiceCommand(t)

Spec == Init /\ [][Next]_vars

\* the file is replaced while no process runs
ForeignWrite(doc) ==
    /\ ~running
    /\ file' = FileOf(doc)
    /\ op' = "foreign_write"
    /\ ret' = RetNone
    /\ call' = NoCall
    /\ Silent
    /\ UNCHANGED <<tasks, next_id, running, error>>

NextForeign ==
    \/ Next
    \/ \E doc \in ForeignDocs : ForeignWrite(doc)

SpecForeign == Init /\ [][NextForeign]_vars

\* interpret_command run alone on a transcript
InitInterp ==
    /\ tasks = <<>>
    /\ next_id = 1
    /\ file = NoFile
    /\ running = FALSE
    /\ error = "None"
    /\ op = "input"
    /\ text \in Transcripts
    /\ command = CmdNone("None")
    /\ feedback = NoFeedback
    /\ ret = RetNone
    /\ call = NoCall

Interpret ==
    /\ op = "input"
    /\ op' = "interpret_command"
    /\ command' = interpret_command(text)
    /\ UNCHANGED <<tasks, next_id, file, running, error, text, feedback, ret, call>>

NextInterp == Interpret

SpecInterp == InitInterp /\ [][NextInterp]_vars

-----------------------------------------------------------------------------
(* Properties *)

PVC == "process_voice_command"

\* indices of the tasks whose description contains the fragment,
\* compared case-insensitively
MatchSet(ts, fragment) ==
    {i \in 1..Len(ts) : contains(lower(ts[i].description), lower(fragment))}

\* a document is a well-formed task list: an array of objects that each
\* have id, description and completed, the id an integer
WellFormed(doc) ==
    /\ doc.kind = "array"
    /\ \A i \in 1..Len(doc.items) :
          /\ doc.items[i].kind = "object"
          /\ TaskKeys \subseteq doc.items[i].keys
          /\ doc.items[i].id.t = "int"

\* C1: after any sequence of add_task / update_task / delete_task calls
\* (and reloads of the file the store wrote) no two tasks have the same id
\* and next_id is greater than every id present.
C1_UniqueIdsBelowNextId ==
    /\ \A i, j \in 1..Len(tasks) : i # j => tasks[i].id # tasks[j].id
    /\ \A i \in 1..Len(tasks) : tasks[i].id < next_id

C1_Witness ==
    /\ op = "__init__"
    /\ Len(tasks) = 1
    /\ tasks[1].id = 2

\* C2: load_tasks never raises; on an existing file that is not a
\* well-formed task list it ends with no tasks and next_id = 1.
C2_LoadNeverRaises ==
    (op = "__init__" /\ file.exists /\ ~WellFormed(file.doc))
        => (error = "None" /\ tasks = <<>> /\ next_id = 1)

\* C3: save_tasks followed by load_tasks on the same file gives back the
\* same ids, descriptions and completed flags in the same order.
C3_RoundTrip ==
    LET saved == save_tasks(store)
        fresh == Store(<<>>, 1, saved.file)
        loaded == load_tasks(fresh)
    IN  /\ load_tasks_raises(fresh) = "None"
        /\ Len(loaded.tasks) = Len(tasks)
        /\ \A i \in 1..Len(tasks) :
              /\ loaded.tasks[i].id = tasks[i].id
              /\ loaded.tasks[i].description = tasks[i].description
              /\ loaded.tasks[i].completed = tasks[i].completed

C3_Witness ==
    /\ Len(tasks) = 2
    /\ tasks[1].completed
    /\ ~tasks[2].completed
    /\ tasks[1].description # tasks[2].description

\* C4: a by-description delete / complete acts on the number of tasks whose
\* description contains the fragment: one match - that task alone is
\* deleted / completed; none - "No matching task found." and nothing
\* changes; several - "Multiple matching tasks found..." and nothing changes.
C4_Step ==
    (op' = PVC /\ command'.command \in {"delete_by_desc", "complete_by_desc"}) =>
        LET m == MatchSet(tasks, command'.str) IN
        /\ Cardinality(m) = 0 =>
              /\ feedback'.status = "No matching task found."
              /\ UNCHANGED <<tasks, next_id, file>>
        /\ Cardinality(m) >= 2 =>
              /\ feedback'.status = "Multiple matching tasks found. Please be more specific."
              /\ UNCHANGED <<tasks, next_id, file>>
        /\ Cardinality(m) = 1 =>
              LET i == CHOOSE k \in m : TRUE IN
              IF command'.command = "delete_by_desc"
              THEN /\ Len(tasks') = Len(tasks) - 1
                   /\ \A k \in 1..Len(tasks') :
                         tasks'[k] = IF k < i THEN tasks[k] ELSE tasks[k + 1]
              ELSE /\ Len(tasks') = Len(tasks)
                   /\ tasks'[i].completed
                   /\ tasks'[i].id = tasks[i].id
                   /\ tasks'[i].description = tasks[i].description
                   /\ \A k \in 1..Len(tasks) : k # i => tasks'[k] = tasks[k]

C4_ByDescription == [][C4_Step]_vars

C4_Witness ==
    /\ op = PVC
    /\ command.command = "delete_by_desc"
    /\ feedback.status = "Deleted task: {task.description}"
    /\ Len(tasks) = 1

\* C5: a delete or complete command without a target is answered with the
\* request to specify a task number.
C5_SpecifyTaskNumber ==
    (op = PVC /\ command.command \in {"delete", "complete"} /\ command.ptype = "None")
        => feedback.status =
              IF command.command = "delete"
              THEN "Please specify a task number to delete."
              ELSE "Please specify a task number to complete."

\* C6: delete / complete by an id that no task has answers
\* "Task n not found" and leaves tasks, next_id and the file as they were.
C6_Step ==
    (/\ op' = PVC
     /\ command'.command \in {"delete", "complete"}
     /\ command'.ptype = "int"
     /\ command'.num \notin Ids(tasks)) =>
        /\ feedback'.status = "Task {param} not found"
        /\ feedback'.num = command'.num
        /\ UNCHANGED <<tasks, next_id, file>>

C6_NotFound == [][C6_Step]_vars

C6_Witness ==
    /\ op = PVC
    /\ command = CmdInt("delete", 1)
    /\ feedback.status = "Task {param} not found"
    /\ tasks # <<>>

\* C7: right after a successful add_task, update_task or delete_task the
\* file holds the serialization of the tasks in memory, in order, and a
\* fresh TaskManager loading it sees the same task list.
C7_WriteThrough ==
    (\/ op = "add_task"
     \/ op = "update_task" /\ ret.kind = "Task"
     \/ op = "delete_task" /\ ret.b) =>
        /\ file.exists
        /\ file.doc.kind = "array"
        /\ Len(file.doc.items) = Len(tasks)
        /\ \A i \in 1..Len(tasks) :
              /\ file.doc.items[i].kind = "object"
              /\ file.doc.items[i].keys = TaskKeys
              /\ file.doc.items[i].id = JInt(tasks[i].id)
              /\ file.doc.items[i].description = tasks[i].description
              /\ file.doc.items[i].completed = tasks[i].completed
        /\ LET fresh == load_tasks(Store(<<>>, 1, file))
           IN  /\ Len(fresh.tasks) = Len(tasks)
               /\ \A i \in 1..Len(tasks) : fresh.tasks[i] = tasks[i]

C7_Witness ==
    /\ op = "delete_task"
    /\ ret.b
    /\ Len(tasks) = 1
    /\ tasks[1].completed

\* C8: across add, update, delete, save and load (closing the program and
\* reloading its file included) next_id never decreases.
C8_NextIdNeverDecreases == [][next_id' >= next_id]_vars

\* C9: interpret_command takes the first rule, in the order add/create,
\* delete/remove, complete/mark done, list/show, whose trigger the
\* lower-cased transcript contains; an empty or absent transcript, or one
\* with no trigger, is unrecognized.
RulesMatched(s) ==
    { r \in 1..4 :
        \/ r = 1 /\ (contains(s, s_add) \/ contains(s, s_create))
        \/ r = 2 /\ (contains(s, s_delete) \/ contains(s, s_remove))
        \/ r = 3 /\ (contains(s, s_complete) \/ contains(s, s_mark_done))
        \/ r = 4 /\ (contains(s, s_list) \/ contains(s, s_show)) }

RuleOf(t) ==
    IF t.isNone \/ t.s = <<>> THEN 5
    ELSE LET R == RulesMatched(lower(t.s))
         IN  IF R = {} THEN 5 ELSE CHOOSE r \in R : \A q \in R : r <= q

ActionOf(cmd) ==
    CASE cmd.command = "add" -> 1
      [] cmd.command \in {"delete", "delete_by_desc"} -> 2
      [] cmd.command \in {"complete", "complete_by_desc"} -> 3
      [] cmd.command = "list" -> 4
      [] OTHER -> 5

C9_FirstRuleWins ==
    op = "interpret_command" => ActionOf(command) = RuleOf(text)

C9_Witness ==
    /\ op = "interpret_command"
    /\ text = Words(<<s_show, s_list, s_add>>)
    /\ command.command = "add"

\* C10: in the delete rule (and the complete rule, with the tokens
\* "complete" / "done") the leftmost trigger token that has a following
\* token decides: an integer after it gives the by-id command, anything
\* else the by-description command with all the tokens after the trigger
\* joined by single spaces; with no such trigger the target is None.
TargetOf(tokens, triggers, by_id, by_desc) ==
    LET I == {i \in 1..(Len(tokens) - 1) : tokens[i] \in triggers} IN
    IF I = {} THEN CmdNone(by_id)
    ELSE LET i == CHOOSE k \in I : \A q \in I : k <= q
         IN  IF int_parses(tokens[i + 1])
             THEN CmdInt(by_id, int_value(tokens[i + 1]))
             ELSE CmdStr(by_desc, join(SubSeq(tokens, i + 1, Len(tokens))))

C10_LeftmostTrigger ==
    op = "interpret_command" =>
        /\ RuleOf(text) = 2 =>
              command = TargetOf(split(lower(text.s)), {s_delete, s_remove},
                                 "delete", "delete_by_desc")
        /\ RuleOf(text) = 3 =>
              command = TargetOf(split(lower(text.s)), {s_complete, s_done},
                                 "complete", "complete_by_desc")

C10_Witness ==
    /\ op = "interpret_command"
    /\ text = Words(<<s_remove, s_delete, s_three>>)
    /\ command = CmdStr("delete_by_desc", join(<<s_delete, s_three>>))

\* C11: executing List, Add("") or Unrecognized leaves tasks, next_id and
\* the file as they were; List on an empty store answers "Your task list
\* is empty." and Add("") asks for a task to add.
C11_Step ==
    (/\ op' = PVC
     /\ \/ command'.command \in {"list", "None"}
        \/ command'.command = "add" /\ command'.str = <<>>) =>
        /\ UNCHANGED <<tasks, next_id, file>>
        /\ (command'.command = "list" /\ tasks = <<>>) =>
              feedback'.status = "Your task list is empty."
        /\ command'.command = "add" =>
              feedback'.status = "Please specify a task to add."

C11_NoMutation == [][C11_Step]_vars

C11_Witness ==
    /\ op = PVC
    /\ command = CmdStr("add", <<>>)
    /\ feedback.status = "Please specify a task to add."
    /\ Len(tasks) = 2


\* C12: update_task on a present id changes only the fields supplied, of
\* that one task: its id, the fields not supplied, the other tasks and the
\* order stay; on an absent id it returns None, changes nothing and does
\* not write the file.
C12_Step ==
    op' = "update_task" =>
        IF call'.task_id \in Ids(tasks)
        THEN LET i == CHOOSE k \in 1..Len(tasks) : tasks[k].id = call'.task_id IN
             /\ ret' = RetTask(call'.task_id)
             /\ next_id' = next_id
             /\ Len(tasks') = Len(tasks)
             /\ \A k \in 1..Len(tasks) : k # i => tasks'[k] = tasks[k]
             /\ tasks'[i].id = tasks[i].id
             /\ tasks'[i].description =
                   IF call'.description.isNone THEN tasks[i].description
                   ELSE call'.description.s
             /\ tasks'[i].completed =
                   IF call'.completed = "None" THEN tasks[i].completed
                   ELSE (call'.completed = "True")
        ELSE /\ ret' = RetNone
             /\ UNCHANGED <<tasks, next_id, file>>

C12_UpdateFrame == [][C12_Step]_vars

C12_Witness ==
    /\ op = "update_task"
    /\ ret = RetTask(1)
    /\ call.completed = "None"
    /\ call.description = SomeText(s_Milk)
    /\ Len(tasks) = 2
    /\ tasks[1].completed
    /\ tasks[1].description = s_Milk
    /\ tasks[2].description # s_Milk

====
